---- MODULE Spec2Model ----
(***************************************************************************)
(* Model of the hydrogen-orbital engine: the special functions, the Halton *)
(* sampler and the rejection loop of generateOrbitalParticles              *)
(* (src/js/visualizer.js, and halton.js as found in src/README.md).        *)
(*                                                                         *)
(* Numbers.  A JavaScript Number is modelled in two ways:                  *)
(*  - the accumulator of factorial() is a binary natural (little-endian    *)
(*    sequence of bits) rounded to the 53-bit significand of an IEEE-754   *)
(*    double after every multiplication;                                   *)
(*  - every other quantity is an exact real of the form                    *)
(*    (n/d) * sqrt(rad) * e^(en/ed) * sqrt(pi)^p, extended with NaN and    *)
(*    +-Infinity; rounding is not modelled there.                          *)
(***************************************************************************)
EXTENDS Integers, Sequences, FiniteSets, TLC

\* ------------------------------------------------------------------ bounds
MaxFact == 23
MaxNegFact == 3
MaxL == 4
MaxLagN == 4
MaxAlpha == 3
MaxLagX == 4
MaxIndex == 30
MaxBase == 5
MaxN == 2
MaxParticleCount == 1
MaxCallDepth == 16
MaxDensN == 4
MaxRho == 2
MaxFormulaL == 6
MaxR90N == 2
MaxR90Steps == 2
MaxSliderCount == 2

\* ------------------------------------------------- binary naturals (bits)
RECURSIVE BitsFromNat(_)
BitsFromNat(v) ==
    IF v = 0 THEN <<>> ELSE <<v % 2>> \o BitsFromNat(v \div 2)

RECURSIVE BitsToNat(_)
BitsToNat(b) ==
    IF b = <<>> THEN 0 ELSE Head(b) + 2 * BitsToNat(Tail(b))

RECURSIVE BitsMulAdd(_, _, _)
\* b * k + carry, for small naturals k >= 1 and carry
BitsMulAdd(b, k, carry) ==
    IF b = <<>> THEN BitsFromNat(carry)
    ELSE LET t == Head(b) * k + carry
         IN  <<t % 2>> \o BitsMulAdd(Tail(b), k, t \div 2)

BitsInc(b) == BitsMulAdd(b, 1, 1)

Zeros(c) == [j \in 1..c |-> 0]

RECURSIVE Dec(_, _)
\* value of a decimal literal, digits most significant first, acc = <<>>
Dec(digits, acc) ==
    IF digits = <<>> THEN acc
    ELSE Dec(Tail(digits), BitsMulAdd(acc, 10, Head(digits)))

RECURSIVE ExactProduct(_)
\* 1*2*...*k over the unbounded naturals
ExactProduct(k) ==
    IF k <= 1 THEN <<1>> ELSE BitsMulAdd(ExactProduct(k - 1), k, 0)

\* ------------------------------------------------ IEEE-754 double rounding
SignificandBits == 53

\* round-to-nearest, ties-to-even, to a significand of w bits
RoundTo(b, w) ==
    IF Len(b) <= w THEN b
    ELSE LET e    == Len(b) - w
             low  == SubSeq(b, 1, e)
             high == SubSeq(b, e + 1, Len(b))
             rest == \E j \in 1..(e - 1) : low[j] = 1
             up   == low[e] = 1 /\ (rest \/ high[1] = 1)
         IN  Zeros(e) \o (IF up THEN BitsInc(high) ELSE high)

\* the product kept in single precision (a Float32 accumulator)
NumberMulFloat32(a, i) == RoundTo(BitsMulAdd(a, i, 0), 24)

\* result *= i on a Number holding a natural
NumberMul(a, i) == RoundTo(BitsMulAdd(a, i, 0), SignificandBits)

\* ------------------------------------------------------------- factorial
RECURSIVE factorialLoop(_, _, _)
factorialLoop(result, i, n) ==
    IF i <= n THEN factorialLoop(NumberMul(result, i), i + 1, n)
    ELSE result

factorial(n) ==
    IF n < 0 THEN <<>>
    ELSE IF n = 0 \/ n = 1 THEN <<1>>
    ELSE factorialLoop(<<1>>, 2, n)

\* ------------------------------------- exact reals with NaN and Infinity
\* A finite Number is kept exactly as (n / d) * sqrt(rad) * e^(en / ed) *
\* sqrt(pi)^p with rad a squarefree natural, or as "real": a finite value the
\* model does not track.  Rounding is not modelled.
\* Operands are values: as the language evaluates the arguments before a
\* call, each operator takes the value of every operand once.
RECURSIVE Gcd(_, _)
Gcd(aArg, bArg) ==
    CHOOSE value \in {
        IF b = 0 THEN a ELSE Gcd(b, a % b)
      : a \in {aArg}, b \in {bArg}} : TRUE

Abs(i) == IF i < 0 THEN -i ELSE i

Mono(numArg, denArg, radArg, enArg, edArg, pArg) ==
    CHOOSE value \in {
        LET g  == Gcd(Abs(num), Abs(den))
            s  == IF den < 0 THEN -1 ELSE 1
            ge == Gcd(Abs(en), Abs(ed))
        IN  IF num = 0
            THEN [k |-> "num", n |-> 0, d |-> 1, rad |-> 1,
                  en |-> 0, ed |-> 1, p |-> 0]
            ELSE [k |-> "num", n |-> (s * num) \div g, d |-> (s * den) \div g,
                  rad |-> rad, en |-> en \div ge, ed |-> ed \div ge, p |-> p]
      : num \in {numArg}, den \in {denArg}, rad \in {radArg},
        en \in {enArg}, ed \in {edArg}, p \in {pArg}} : TRUE

Rat(num, den) == Mono(num, den, 1, 0, 1, 0)

Num(i) == Rat(i, 1)

Zero == Num(0)

One == Num(1)

\* Math.PI
PI == Mono(1, 1, 1, 0, 1, 2)

NaN == [k |-> "nan", n |-> 0, d |-> 1, rad |-> 1, en |-> 0, ed |-> 1, p |-> 0]

Inf(s) ==
    [k |-> "inf", n |-> s, d |-> 1, rad |-> 1, en |-> 0, ed |-> 1, p |-> 0]

\* a finite value whose magnitude is not tracked; n is its sign when that is
\* known to be +1 or -1, and 0 when it is not
Real == [k |-> "real", n |-> 0, d |-> 1, rad |-> 1, en |-> 0, ed |-> 1, p |-> 0]

Signed(s) == [Real EXCEPT !.n = s]

\* thrown "Maximum call stack size exceeded"
RangeError ==
    [k |-> "RangeError", n |-> 0, d |-> 1, rad |-> 1, en |-> 0, ed |-> 1,
     p |-> 0]

IsNum(a) == a.k = "num"

IsZero(a) == a.k = "num" /\ a.n = 0

SameUnit(a, b) ==
    a.rad = b.rad /\ a.en = b.en /\ a.ed = b.ed /\ a.p = b.p

Sgn(a) == IF a.n < 0 THEN -1 ELSE IF a.n > 0 THEN 1 ELSE 0

Neg(a) == [a EXCEPT !.n = -a.n]

\* x * y stays inside the integers the model computes with
Fits(x, y) == x = 0 \/ y = 0 \/ Abs(x) <= 2147483647 \div Abs(y)

\* a sum whose magnitude is not tracked
SumSign(a, b) == IF Sgn(a) = Sgn(b) THEN Signed(Sgn(a)) ELSE Real

Add(aArg, bArg) ==
    CHOOSE value \in {
        IF a.k = "nan" \/ b.k = "nan" THEN NaN
        ELSE IF a.k = "inf" /\ b.k = "inf" THEN (IF a.n = b.n THEN a ELSE NaN)
        ELSE IF a.k = "inf" THEN a
        ELSE IF b.k = "inf" THEN b
        ELSE IF IsZero(a) THEN b
        ELSE IF IsZero(b) THEN a
        ELSE IF a.k = "real" \/ b.k = "real" THEN SumSign(a, b)
        ELSE IF SameUnit(a, b)
             THEN LET g  == Gcd(a.d, b.d)
                      da == a.d \div g
                      db == b.d \div g
                  IN  IF Fits(a.n, db) /\ Fits(b.n, da) /\ Fits(a.d, db)
                         /\ Fits(2, a.n * db) /\ Fits(2, b.n * da)
                      THEN Mono(a.n * db + b.n * da, a.d * db,
                                a.rad, a.en, a.ed, a.p)
                      ELSE SumSign(a, b)
        ELSE SumSign(a, b)
      : a \in {aArg}, b \in {bArg}} : TRUE

Sub(a, b) == Add(a, Neg(b))

Mul(aArg, bArg) ==
    CHOOSE value \in {
        IF a.k = "nan" \/ b.k = "nan" THEN NaN
        ELSE IF IsZero(a) \/ IsZero(b)
             THEN (IF a.k = "inf" \/ b.k = "inf" THEN NaN ELSE Zero)
        ELSE IF a.k = "real" \/ b.k = "real" THEN Signed(Sgn(a) * Sgn(b))
        ELSE IF a.k = "inf" \/ b.k = "inf" THEN Inf(Sgn(a) * Sgn(b))
        ELSE LET g  == Gcd(a.rad, b.rad)
                 g1 == Gcd(Abs(a.n), b.d)
                 g2 == Gcd(Abs(b.n), a.d)
                 n1 == a.n \div g1
                 n2 == b.n \div g2
                 ga == Gcd(g, a.d \div g2)
                 gb == Gcd(g \div ga, b.d \div g1)
                 d1 == (a.d \div g2) \div ga
                 d2 == (b.d \div g1) \div gb
                 gr == g \div (ga * gb)
             IN  IF Fits(n1, n2) /\ Fits(n1 * n2, gr) /\ Fits(d1, d2)
                 THEN Mono(n1 * n2 * gr, d1 * d2,
                           (a.rad \div g) * (b.rad \div g),
                           a.en * b.ed + b.en * a.ed, a.ed * b.ed, a.p + b.p)
                 ELSE Signed(Sgn(a) * Sgn(b))
      : a \in {aArg}, b \in {bArg}} : TRUE

\* 1 / b for a finite b # 0
Inverse(bArg) ==
    CHOOSE value \in {
        IF Fits(b.n, b.rad) THEN Mono(b.d, b.n * b.rad, b.rad, -b.en, b.ed, -b.p)
        ELSE Signed(Sgn(b))
      : b \in {bArg}} : TRUE

Div(aArg, bArg) ==
    CHOOSE value \in {
        IF a.k = "nan" \/ b.k = "nan" THEN NaN
        ELSE IF a.k = "inf" /\ b.k = "inf" THEN NaN
        ELSE IF a.k = "real" \/ b.k = "real" THEN Signed(Sgn(a) * Sgn(b))
        ELSE IF a.k = "inf" THEN Inf(IF Sgn(b) < 0 THEN -a.n ELSE a.n)
        ELSE IF b.k = "inf" THEN Zero
        ELSE IF b.n = 0 THEN (IF a.n = 0 THEN NaN ELSE Inf(Sgn(a)))
        ELSE Mul(a, Inverse(b))
      : a \in {aArg}, b \in {bArg}} : TRUE

RECURSIVE Pow(_, _)
\* Math.pow with an integer exponent
Pow(aArg, eArg) ==
    CHOOSE value \in {
        IF e = 0 THEN One
        ELSE IF e < 0 THEN Div(One, Pow(a, -e))
        ELSE Mul(a, Pow(a, e - 1))
      : a \in {aArg}, e \in {eArg}} : TRUE

RECURSIVE SquarePart(_, _)
\* the largest q with q * q dividing v, found by trial division from p
SquarePart(v, p) ==
    IF p * p > v THEN 1
    ELSE IF v % (p * p) = 0 THEN p * SquarePart(v \div (p * p), p)
    ELSE SquarePart(v, p + 1)

\* Math.sqrt
Sqrt(aArg) ==
    CHOOSE value \in {
        IF a.k = "nan" THEN NaN
        ELSE IF a.k = "inf" THEN (IF a.n > 0 THEN a ELSE NaN)
        ELSE IF a.k = "real" THEN (IF a.n > 0 THEN a ELSE Real)
        ELSE IF a.n < 0 THEN NaN
        ELSE IF a.n = 0 THEN Zero
        ELSE IF a.rad # 1 \/ a.p % 2 # 0 THEN Signed(1)
        ELSE LET qn == SquarePart(a.n, 2)
                 qd == SquarePart(a.d, 2)
                 sn == a.n \div (qn * qn)
                 sd == a.d \div (qd * qd)
             IN  Mono(qn, qd * sd, sn * sd, a.en, 2 * a.ed, a.p \div 2)
      : a \in {aArg}} : TRUE

\* Math.exp
Exp(aArg) ==
    CHOOSE value \in {
        IF a.k = "nan" THEN NaN
        ELSE IF a.k = "inf" THEN (IF a.n > 0 THEN a ELSE Zero)
        ELSE IF a.k = "real" THEN Signed(1)
        ELSE IF a.rad # 1 \/ a.en # 0 \/ a.p # 0 THEN Signed(1)
        ELSE Mono(1, 1, 1, a.n, a.d, 0)
      : a \in {aArg}} : TRUE

\* Math.pow(y, m / 2) for an integer m
PowHalf(y, m) == Pow(Sqrt(y), m)

\* a < b is known to hold; false when either side is NaN
Less(aArg, bArg) ==
    CHOOSE value \in {
        LET diff == Sub(a, b)
        IN  diff.k \in {"num", "inf", "real"} /\ diff.n < 0
      : a \in {aArg}, b \in {bArg}} : TRUE

\* a factorial() result used as an operand of rational arithmetic
FromBits(b) == Num(BitsToNat(b))

\* ----------------------------------------------------- associatedLaguerre
laguerreStepShifted(L0, L1, i, alpha, x) ==
    Div(Sub(Mul(Sub(Add(Num(2 * i + 1), alpha), x), L1),
            Mul(Add(Num(i + 1), alpha), L0)),
        Num(i + 1))

\* L2 = ((2 * i + 1 + alpha - x) * L1 - (i + alpha) * L0) / (i + 1)
laguerreStep(L0, L1, i, alpha, x) ==
    Div(Sub(Mul(Sub(Add(Num(2 * i + 1), alpha), x), L1),
            Mul(Add(Num(i), alpha), L0)),
        Num(i + 1))

RECURSIVE laguerreLoop(_, _, _, _, _, _)
laguerreLoop(L0, L1, i, n, alpha, x) ==
    IF i < n
    THEN laguerreLoop(L1, laguerreStep(L0, L1, i, alpha, x), i + 1, n, alpha, x)
    ELSE L1

associatedLaguerre(n, alpha, x) ==
    IF n = 0 THEN One
    ELSE IF n = 1 THEN Sub(Add(One, alpha), x)
    ELSE laguerreLoop(One, Sub(Add(One, alpha), x), 1, n, alpha, x)

\* ----------------------------------------------------- associatedLegendre
RECURSIVE legendreM0Loop(_, _, _, _, _)
legendreM0Loop(P0, P1, i, l, x) ==
    IF i < l
    THEN legendreM0Loop(P1,
             Div(Sub(Mul(Mul(Num(2 * i + 1), x), P1), Mul(Num(i), P0)),
                 Num(i + 1)),
             i + 1, l, x)
    ELSE P1

\* the m === l branch: P_l^l
legendreSectoralOfCosine(m, x) ==
    LET factor == Div(Mul(Pow(Num(-1), m), FromBits(factorial(2 * m))),
                      Mul(Pow(Num(2), m), FromBits(factorial(m))))
    IN  Mul(factor, PowHalf(Mul(x, x), m))

\* P_l^l: factor * Math.pow(1 - x * x, m / 2)
legendreSectoral(m, x) ==
    LET factor == Div(Mul(Pow(Num(-1), m), FromBits(factorial(2 * m))),
                      Mul(Pow(Num(2), m), FromBits(factorial(m))))
    IN  Mul(factor, PowHalf(Sub(One, Mul(x, x)), m))

RECURSIVE legendreFrame(_, _, _, _)
\* one activation of associatedLegendre at call depth `depth`; a call deeper
\* than the engine's stack throws RangeError, which propagates to the caller
legendreFrame(l, m, x, depth) ==
    IF depth > MaxCallDepth THEN RangeError
    ELSE IF l = 0 /\ m = 0 THEN One
    ELSE IF l = 1 /\ m = 0 THEN x
    ELSE IF l = 1 /\ m = 1 THEN Neg(Sqrt(Sub(One, Mul(x, x))))
    ELSE IF m = 0 THEN legendreM0Loop(One, x, 1, l, x)
    ELSE IF m = l THEN legendreSectoral(m, x)
    ELSE IF m = l - 1
         THEN LET a == legendreFrame(l - 1, l - 1, x, depth + 1)
              IN  IF a = RangeError THEN RangeError
                  ELSE Mul(Mul(x, Num(2 * l - 1)), a)
    ELSE LET a == legendreFrame(l - 1, m, x, depth + 1)
         IN  IF a = RangeError THEN RangeError
             ELSE LET b == legendreFrame(l - 2, m, x, depth + 1)
                  IN  IF b = RangeError THEN RangeError
                      ELSE Div(Sub(Mul(Mul(Num(2 * l - 1), x), a),
                                   Mul(Num(l + m - 1), b)),
                               Num(l - m))

associatedLegendre(l, m, x) == legendreFrame(l, m, x, 1)

legendreCalleesWithoutOneStep(l, m) ==
    IF (l = 0 /\ m = 0) \/ (l = 1 /\ m = 0) \/ (l = 1 /\ m = 1)
          \/ m = 0 \/ m = l
    THEN {}
    ELSE {<<l - 1, m>>, <<l - 2, m>>}

\* the calls <<l, m>> that one activation of associatedLegendre(l, m, x)
\* makes itself
legendreCallees(l, m) ==
    IF (l = 0 /\ m = 0) \/ (l = 1 /\ m = 0) \/ (l = 1 /\ m = 1)
          \/ m = 0 \/ m = l
    THEN {}
    ELSE IF m = l - 1 THEN {<<l - 1, l - 1>>}
    ELSE {<<l - 1, m>>, <<l - 2, m>>}

RECURSIVE legendreActivations(_, _, _)
\* the activations <<l, m, depth>> that the activation of
\* associatedLegendre(l, m, x) at call depth `depth` causes, itself
\* included, down to the depth of the engine's stack
legendreActivations(l, m, depth) ==
    {<<l, m, depth>>} \cup
        (IF depth >= MaxCallDepth THEN {}
         ELSE UNION {legendreActivations(c[1], c[2], depth + 1) :
                        c \in legendreCallees(l, m)})

\* ------------------------------------------------------- HaltonGenerator
RECURSIVE haltonLoopUnscaled(_, _, _, _)
haltonLoopUnscaled(result, f, i, base) ==
    IF i > 0
    THEN haltonLoopUnscaled(Add(result, Mul(f, Num(i % base))), f,
                            i \div base, base)
    ELSE result

RECURSIVE haltonLoop(_, _, _, _)
haltonLoop(result, f, i, base) ==
    IF i > 0
    THEN haltonLoop(Add(result, Mul(f, Num(i % base))), Div(f, Num(base)),
                    i \div base, base)
    ELSE result

halton(index, base) == haltonLoop(Zero, Div(One, Num(base)), index, base)

\* an angle c * Math.PI, kept as its coefficient c
TimesPi(c) == [pi |-> c]

sphericalPoint(index) ==
    [r     |-> halton(index, 2),
     theta |-> TimesPi(halton(index, 3)),
     phi   |-> TimesPi(Mul(halton(index, 5), Num(2)))]

sphericalToCartesian(r, theta, phi) ==
    \* each coordinate is r * f(theta) * g(phi), kept as that product
    [x |-> [mag |-> r, polar |-> <<"sin", theta>>, azimuth |-> <<"cos", phi>>],
     y |-> [mag |-> r, polar |-> <<"sin", theta>>, azimuth |-> <<"sin", phi>>],
     z |-> [mag |-> r, polar |-> <<"cos", theta>>, azimuth |-> <<"one", phi>>]]

\* Math.cos of an angle c * Math.PI: exact on the multiples of pi/6 and pi/4
\* (taken as the exact real angle), not tracked elsewhere
Cos(angleArg) ==
    CHOOSE value \in {
        LET c == angle.pi
        IN  IF c.k # "num" \/ c.rad # 1 \/ c.en # 0 \/ c.p # 0 THEN Real
            ELSE IF 12 % c.d # 0 THEN Real
            ELSE LET t  == (c.n * (12 \div c.d)) % 24
                     u  == IF t > 12 THEN 24 - t ELSE t
                     v  == IF u > 6 THEN 12 - u ELSE u
                     sg == IF u > 6 THEN -1 ELSE 1
                 IN  IF v = 0 THEN Num(sg)
                     ELSE IF v = 2 THEN Mono(sg, 2, 3, 0, 1, 0)
                     ELSE IF v = 3 THEN Mono(sg, 2, 2, 0, 1, 0)
                     ELSE IF v = 4 THEN Rat(sg, 2)
                     ELSE IF v = 6 THEN Zero
                     ELSE Real
      : angle \in {angleArg}} : TRUE

\* Math.sin of an angle c * Math.PI
Sin(angle) == Cos(TimesPi(Sub(angle.pi, Rat(1, 2))))

\* ------------------------------------------------------- HydrogenOrbital
radialWavefunction(n, l, r) ==
    LET rho  == Div(Mul(Num(2), r), Num(n))
        norm == Sqrt(Div(Mul(Pow(Div(Num(2), Num(n)), 3),
                             FromBits(factorial(n - l - 1))),
                         Mul(Num(2 * n), FromBits(factorial(n + l)))))
        laguerrePoly == associatedLaguerre(n - l - 1, Num(2 * l + 1), rho)
    IN  Mul(Mul(Mul(norm, Exp(Div(Neg(rho), Num(2)))), Pow(rho, l)),
            laguerrePoly)

phaseFactorIgnoringM(m, phi) == Cos(phi)

\* const phaseFactor = Math.cos(m * phi)
phaseFactor(m, phi) == Cos(TimesPi(Mul(Num(m), phi.pi)))

sphericalHarmonic(l, m, theta, phi) ==
    LET absM == Abs(m)
        norm == Sqrt(Div(Mul(Num(2 * l + 1), FromBits(factorial(l - absM))),
                         Mul(Mul(Num(4), PI), FromBits(factorial(l + absM)))))
        legendrePoly == associatedLegendre(l, absM, Cos(theta))
        phase == IF m < 0 THEN Pow(Num(-1), absM) ELSE One
    IN  IF legendrePoly = RangeError THEN RangeError
        ELSE Mul(Mul(Mul(norm, legendrePoly), phaseFactor(m, phi)), phase)

probabilityDensityUnsquared(n, l, m, r, theta, phi) ==
    LET R == radialWavefunction(n, l, r)
        Y == sphericalHarmonic(l, m, theta, phi)
    IN  Mul(Mul(R, R), Y)

probabilityDensity(n, l, m, r, theta, phi) ==
    LET R == radialWavefunction(n, l, r)
        Y == sphericalHarmonic(l, m, theta, phi)
    IN  Mul(Mul(Mul(R, R), Y), Y)

\* const orbitalTypes = ['s', 'p', 'd', 'f', 'g', 'h']
orbitalTypes == <<"s", "p", "d", "f", "g", "h">>

\* const orbitalType = orbitalTypes[l] || l, as the template prints it
orbitalType(l) ==
    IF l + 1 \in DOMAIN orbitalTypes THEN orbitalTypes[l + 1] ELSE ToString(l)

getOrbitalFormula(n, l, m) ==
    "\\psi_{" \o ToString(n) \o orbitalType(l)
        \o "}(r,\\theta,\\phi) = R_{" \o ToString(n) \o ToString(l)
        \o "}(r) \\cdot Y_{" \o ToString(l) \o "}^{" \o ToString(m)
        \o "}(\\theta,\\phi)"

\* ------------------------------------------------------------ input sets
\* x with 1 - x*x a rational square
XGrid == {Rat(-1, 1), Rat(-4, 5), Rat(-3, 5), Zero, Rat(3, 5), Rat(4, 5), One}

LagXGrid == {Rat(j, 2) : j \in (-2)..(2 * MaxLagX)}

AlphaGrid == {Rat(j, 2) : j \in (-2)..(2 * MaxAlpha)}

QuantumStates ==
    {q \in [n : 1..MaxN, l : 0..(MaxN - 1), m : (1 - MaxN)..(MaxN - 1)] :
        q.l <= q.n - 1 /\ -q.l <= q.m /\ q.m <= q.l}

\* polar angles 0, pi/4, pi/2, 3pi/4, pi
ThetaGrid == {TimesPi(Rat(j, 4)) : j \in 0..4}

\* azimuths 0, pi/2, pi
PhiGrid == {TimesPi(Rat(j, 2)) : j \in 0..2}

\* valid quantum states n >= 1, 0 <= l <= n - 1, -l <= m <= l
DensityStates ==
    {q \in [n : 1..MaxDensN, l : 0..(MaxDensN - 1),
            m : (-(MaxDensN - 1))..(MaxDensN - 1)] :
        q.l <= q.n - 1 /\ -q.l <= q.m /\ q.m <= q.l}

\* radii r >= 0 with 2r/n a whole number
RadiusGrid(n) == {Rat(n * k, 2) : k \in 0..MaxRho}

\* ------------------------------------------------------------------ state
VARIABLES
    call,           \* the last call of a pure function: name, arguments, result
    pc,             \* generateOrbitalParticles: "idle", "loop" or "done"
    args,           \* its arguments n, l, m, particleCount
    particles,      \* const particles = []
    rejected,       \* const rejected = new Set()
    accepted,       \* let accepted = 0
    attempts,       \* let attempts = 0
    spherical,      \* const spherical, of the last iteration that sampled
    probability,    \* const probability, of the last iteration that sampled
    used,           \* history: the indices passed to sphericalPoint, in order
    skips,          \* history: how often the rejected.has(idx) branch ran
    priorCall,      \* history: generateOrbitalParticles has returned before
    r90Cache,       \* the quantile cache: (n, l) -> radius
    r90Last,        \* the last r90 call: key, returned value, cache hit
    r90First,       \* history: the value the first r90 call for a key returned
    r90Integrations, \* history: how often the integral was computed, per key
    task,           \* the page script: the handler that is running
    nSelect,        \* <select id="n-value">: its value
    lSelect,        \* <select id="l-value">: its options and value
    mSelect,        \* <select id="m-value">: its options and value
    particleCountSlider, \* <input id="particle-count">: its value
    particleCountValue,  \* <span id="particle-count-value">: its text
    formulaElement, \* <div id="formula">: the formula rendered into it
    currentN,       \* let currentN of the page script
    currentL,       \* let currentL
    currentM,       \* let currentM
    visualizer,     \* the OrbitalVisualizer: its fields
    scene,          \* this.scene: the particle systems among its children
    lastRender,     \* history: the arguments of the last renderOrbital call
    lastFormula     \* history: the arguments of the last getOrbitalFormula

sampler ==
    <<pc, args, particles, rejected, accepted, attempts, spherical,
      probability, used, skips, priorCall>>

quantile == <<r90Cache, r90Last, r90First, r90Integrations>>

page ==
    <<task, nSelect, lSelect, mSelect, particleCountSlider,
      particleCountValue, formulaElement, currentN, currentL, currentM,
      visualizer, scene, lastRender, lastFormula>>

vars == <<call, sampler, quantile, page>>

NoCall == [fn |-> "none", a |-> <<>>, v |-> <<>>, res |-> Zero]

NoArgs == [n |-> 1, l |-> 0, m |-> 0, particleCount |-> 0]

\* no candidate sampled yet
NoPoint == [r |-> Zero, theta |-> TimesPi(Zero), phi |-> TimesPi(Zero)]

\* a function with no entries
Empty == [key \in {} |-> Zero]

NoR90 == [key |-> <<0, 0>>, value |-> Zero, hit |-> FALSE]

\* --------------------------------------------- the document (index.html)
\* the option values of <select id="n-value">, the first one selected
nOptions == [j \in 1..MaxN |-> ToString(j)]

\* <select id="l-value"> and <select id="m-value"> hold one option, "0"
zeroOption == [options |-> <<"0">>, value |-> "0"]

\* the values the range input can take
sliderValues == {ToString(k) : k \in 1..MaxSliderCount}

\* the value attribute of the range input
sliderValue == "1"

\* this.particleCount = 20000: a count other than the slider's value
defaultParticleCount == 2

\* the fields the constructor assigns before it calls renderOrbital;
\* particles is <<>> for null and <<system>> for a particle system
newVisualizer ==
    [currentN |-> 1, currentL |-> 0, currentM |-> 0,
     particleCount |-> defaultParticleCount, particles |-> <<>>,
     isLoading |-> FALSE]

Init ==
    /\ call = NoCall
    /\ pc = "idle"
    /\ args = NoArgs
    /\ particles = <<>>
    /\ rejected = {}
    /\ accepted = 0
    /\ attempts = 0
    /\ spherical = NoPoint
    /\ probability = Zero
    /\ used = <<>>
    /\ skips = 0
    /\ priorCall = FALSE
    /\ r90Cache = Empty
    /\ r90Last = NoR90
    /\ r90First = Empty
    /\ r90Integrations = Empty
    /\ task = "load"
    /\ nSelect = nOptions[1]
    /\ lSelect = zeroOption
    /\ mSelect = zeroOption
    /\ particleCountSlider = sliderValue
    /\ particleCountValue = ToString(defaultParticleCount)
    /\ formulaElement = ""
    /\ currentN = 1
    /\ currentL = 0
    /\ currentM = 0
    /\ visualizer = newVisualizer
    /\ scene = <<>>
    /\ lastRender = <<>>
    /\ lastFormula = <<>>

\* ------------------------------------------------- calls of pure functions
CallFactorial ==
    /\ pc = "idle"
    /\ call = NoCall
    /\ \E k \in (-MaxNegFact)..MaxFact :
          call' = [fn |-> "factorial", a |-> <<k>>, v |-> <<>>,
                   res |-> factorial(k)]
    /\ UNCHANGED <<sampler, quantile, page>>

CallAssociatedLegendre ==
    /\ pc = "idle"
    /\ call = NoCall
    /\ \E l \in 0..MaxL, m \in (-(MaxL + 1))..(MaxL + 1), x \in XGrid :
          call' = [fn |-> "associatedLegendre", a |-> <<l, m>>, v |-> <<x>>,
                   res |-> associatedLegendre(l, m, x)]
    /\ UNCHANGED <<sampler, quantile, page>>

CallAssociatedLaguerre ==
    /\ pc = "idle"
    /\ call = NoCall
    /\ \E n \in (-2)..MaxLagN, alpha \in AlphaGrid, x \in LagXGrid :
          call' = [fn |-> "associatedLaguerre", a |-> <<n>>, v |-> <<alpha, x>>,
                   res |-> associatedLaguerre(n, alpha, x)]
    /\ UNCHANGED <<sampler, quantile, page>>

CallHalton ==
    /\ pc = "idle"
    /\ call = NoCall
    /\ \E i \in 0..MaxIndex, b \in 2..MaxBase :
          call' = [fn |-> "halton", a |-> <<i, b>>, v |-> <<>>,
                   res |-> halton(i, b)]
    /\ UNCHANGED <<sampler, quantile, page>>

CallSphericalPoint ==
    /\ pc = "idle"
    /\ call = NoCall
    /\ \E i \in 0..MaxIndex :
          call' = [fn |-> "sphericalPoint", a |-> <<i>>, v |-> <<>>,
                   res |-> sphericalPoint(i)]
    /\ UNCHANGED <<sampler, quantile, page>>

CallSphericalHarmonic ==
    /\ pc = "idle"
    /\ call = NoCall
    /\ \E l \in 0..MaxL, m \in (-MaxL)..MaxL, theta \in ThetaGrid,
          phi \in PhiGrid :
          /\ -l <= m /\ m <= l
          /\ call' = [fn |-> "sphericalHarmonic", a |-> <<l, m>>,
                      v |-> <<theta, phi>>,
                      res |-> sphericalHarmonic(l, m, theta, phi)]
    /\ UNCHANGED <<sampler, quantile, page>>

CallProbabilityDensity ==
    /\ pc = "idle"
    /\ call = NoCall
    /\ \E q \in DensityStates, theta \in ThetaGrid, phi \in PhiGrid :
          \E r \in RadiusGrid(q.n) :
             call' = [fn |-> "probabilityDensity", a |-> <<q.n, q.l, q.m>>,
                      v |-> <<r, theta, phi>>,
                      res |-> probabilityDensity(q.n, q.l, q.m, r, theta,
                                                 phi)]
    /\ UNCHANGED <<sampler, quantile, page>>

CallGetOrbitalFormula ==
    /\ pc = "idle"
    /\ call = NoCall
    /\ \E n \in 1..(MaxFormulaL + 1), l \in 0..MaxFormulaL, m \in (-1)..1 :
          call' = [fn |-> "getOrbitalFormula", a |-> <<n, l, m>>,
                   v |-> <<>>, res |-> getOrbitalFormula(n, l, m)]
    /\ UNCHANGED <<sampler, quantile, page>>

\* the pure function has returned; its result is consumed
CallReturn ==
    /\ call # NoCall
    /\ call' = NoCall
    /\ UNCHANGED <<sampler, quantile, page>>

\* ------------------------------------------------ generateOrbitalParticles
maxAttempts == args.particleCount * 10

maxRadius == args.n * args.n * 2

LoopCondInclusive == accepted <= args.particleCount /\ attempts < maxAttempts

LoopCondNoBudget == accepted < args.particleCount

\* while (accepted < particleCount && attempts < maxAttempts)
LoopCond == accepted < args.particleCount /\ attempts < maxAttempts

SampleIndexZeroBased == attempts

SampleIndexAfterPriorCall == attempts + 1 + (IF priorCall THEN 1 ELSE 0)

\* const idx = attempts + 1
SampleIndex == attempts + 1

\* spherical.r *= maxRadius
ScaleRadius(r) == Mul(r, Num(maxRadius))

\* the candidate point the iteration with index idx examines
Candidate(idx) ==
    LET raw == sphericalPoint(idx)
    IN  [raw EXCEPT !.r = ScaleRadius(@)]

\* the divisor 0.1 of the acceptance test
Envelope == Rat(1, 10)

\* a lower bound of e^(-t) for a rational t >= 0: 1 - t + t^2/2 - t^3/6
ExpLower(t) ==
    LET s == Add(Sub(One, t),
                 Sub(Div(Mul(t, t), Num(2)), Div(Pow(t, 3), Num(6))))
    IN  IF s.k = "num" /\ s.n > 0 THEN s ELSE Zero

\* an upper bound of Math.PI
PiUpper == Rat(3927, 1250)

\* a rational lower bound of a density value (n/d) * e^q * pi^(-j), q <= 0
LowerBound(a) ==
    IF a.k = "num" /\ a.n > 0 /\ a.rad = 1 /\ a.en <= 0 /\ a.p <= 0
          /\ a.p % 2 = 0
    THEN Mul(Mul(Rat(a.n, a.d), ExpLower(Rat(-a.en, a.ed))),
             Pow(Div(One, PiUpper), (-a.p) \div 2))
    ELSE Zero

\* probability / 0.1 >= 1 is certain: no Math.random() value rejects
AlwaysAccepted(p) == ~Less(LowerBound(p), Envelope) /\ LowerBound(p).k = "num"

\* randomValue < probability / 0.1 can be true: probability > 0
CanAccept(p) == ~IsZero(p)

\* randomValue < probability / 0.1 can be false
CanReject(p) == ~AlwaysAccepted(p)

\* the call generateOrbitalParticles(n, l, m, particleCount) is entered
Entered(n, l, m, particleCount) ==
    /\ args' = [n |-> n, l |-> l, m |-> m, particleCount |-> particleCount]
    /\ pc' = "loop"
    /\ particles' = <<>>
    /\ rejected' = {}
    /\ accepted' = 0
    /\ attempts' = 0
    /\ spherical' = NoPoint
    /\ probability' = Zero
    /\ used' = <<>>
    /\ skips' = 0
    /\ UNCHANGED priorCall

generateOrbitalParticles ==
    /\ pc = "idle"
    /\ call = NoCall
    /\ \E q \in QuantumStates, particleCount \in 0..MaxParticleCount :
          Entered(q.n, q.l, q.m, particleCount)
    /\ UNCHANGED <<call, quantile, page>>

\* one iteration of the while loop; Math.random() is any value in [0, 1)
LoopStep ==
    /\ pc = "loop"
    /\ LoopCond
    /\ LET idx == SampleIndex
       IN  IF idx \in rejected
           THEN /\ attempts' = attempts + 1
                /\ skips' = skips + 1
                /\ UNCHANGED <<particles, rejected, accepted, used,
                               spherical, probability>>
           ELSE \E point \in {Candidate(idx)} :
                \E p \in {probabilityDensity(args.n, args.l, args.m,
                                             point.r, point.theta,
                                             point.phi)} :
                    /\ spherical' = point
                    /\ probability' = p
                    /\ used' = Append(used, idx)
                    /\ \E accept \in BOOLEAN :
                          IF accept
                          THEN /\ CanAccept(p)
                               /\ particles' = Append(particles,
                                      sphericalToCartesian(point.r,
                                          point.theta, point.phi))
                               /\ accepted' = accepted + 1
                               /\ UNCHANGED rejected
                          ELSE /\ CanReject(p)
                               /\ rejected' = rejected \cup {idx}
                               /\ UNCHANGED <<particles, accepted>>
                    /\ attempts' = attempts + 1
                    /\ UNCHANGED skips
    /\ UNCHANGED <<call, pc, args, priorCall, quantile, page>>

\* the loop condition fails: return particles
LoopExit ==
    /\ pc = "loop"
    /\ ~LoopCond
    /\ pc' = "done"
    /\ UNCHANGED <<call, args, particles, rejected, accepted, attempts,
                   spherical, probability, used, skips, priorCall, quantile,
                   page>>

\* the caller takes the returned array; the locals of the call are gone
Returned ==
    /\ pc = "done"
    /\ pc' = "idle"
    /\ args' = NoArgs
    /\ particles' = <<>>
    /\ rejected' = {}
    /\ accepted' = 0
    /\ attempts' = 0
    /\ spherical' = NoPoint
    /\ probability' = Zero
    /\ used' = <<>>
    /\ skips' = 0
    /\ priorCall' = TRUE

\* a call made on its own returns
Return ==
    /\ Returned
    /\ task = "load"
    /\ UNCHANGED <<call, quantile, page>>

\* ------------------------------------------------------------------- r90
\* the (n, l) pairs r90 is called with
R90Keys == {key \in (1..MaxR90N) \X (0..(MaxR90N - 1)) : key[2] < key[1]}

\* the integration step dr = 0.02 * n^2
r90Step(n) == Rat(n * n, 50)

\* the safety ceiling 40 * n^2
r90Ceiling(n) == Num(40 * n * n)

\* the radius the integration stops at: the step at which the cumulative
\* probability crosses the target, or the ceiling if it never does
R90Outcomes(n) ==
    {Mul(Num(k), r90Step(n)) : k \in 1..MaxR90Steps} \cup {r90Ceiling(n)}

r90StoreNothing(cache, key, value) == cache

\* the cache with the entry key -> value written
r90Store(cache, key, value) ==
    [k \in DOMAIN cache \cup {key} |-> IF k = key THEN value ELSE cache[k]]

\* history: f with key -> value recorded
Recorded(f, key, value) ==
    [k \in DOMAIN f \cup {key} |-> IF k = key THEN value ELSE f[k]]

\* r90(n, l) finds (n, l) in the cache and returns the entry
r90Hit ==
    /\ \E key \in R90Keys :
          /\ key \in DOMAIN r90Cache
          /\ r90Last' = [key |-> key, value |-> r90Cache[key], hit |-> TRUE]
    /\ UNCHANGED <<call, sampler, page, r90Cache, r90First, r90Integrations>>

\* r90(n, l) misses: integrates, stores the radius and returns it
r90Miss ==
    /\ \E key \in R90Keys :
          /\ key \notin DOMAIN r90Cache
          /\ \E value \in R90Outcomes(key[1]) :
                /\ r90Cache' = r90Store(r90Cache, key, value)
                /\ r90Last' = [key |-> key, value |-> value, hit |-> FALSE]
                /\ r90First' = IF key \in DOMAIN r90First THEN r90First
                               ELSE Recorded(r90First, key, value)
          /\ r90Integrations' =
                Recorded(r90Integrations, key,
                         IF key \in DOMAIN r90Integrations
                         THEN r90Integrations[key] + 1 ELSE 1)
    /\ UNCHANGED <<call, sampler, page>>

R90Next ==
    \/ r90Hit
    \/ r90Miss

\* the quantile cache on its own
R90Spec == Init /\ [][R90Next]_vars

\* ----------------------------------------------------- OrbitalVisualizer
\* Math.min and Math.max; of two finite values whose order the model does
\* not know, the result is a finite value that is not tracked
MathMin(aArg, bArg) ==
    CHOOSE value \in {
        IF a.k = "nan" \/ b.k = "nan" THEN NaN
        ELSE IF a = b \/ Less(a, b) THEN a
        ELSE IF Less(b, a) THEN b
        ELSE SumSign(a, b)
      : a \in {aArg}, b \in {bArg}} : TRUE

MathMax(aArg, bArg) ==
    CHOOSE value \in {
        IF a.k = "nan" \/ b.k = "nan" THEN NaN
        ELSE IF a = b \/ Less(b, a) THEN a
        ELSE IF Less(a, b) THEN b
        ELSE SumSign(a, b)
      : a \in {aArg}, b \in {bArg}} : TRUE

\* the Number a coordinate r * f(theta) * g(phi) stands for
Coordinate(cArg) ==
    CHOOSE value \in {
        Mul(Mul(c.mag,
                IF c.polar[1] = "sin" THEN Sin(c.polar[2])
                ELSE Cos(c.polar[2])),
            IF c.azimuth[1] = "sin" THEN Sin(c.azimuth[2])
            ELSE IF c.azimuth[1] = "cos" THEN Cos(c.azimuth[2])
            ELSE One)
      : c \in {cArg}} : TRUE

\* a point with its coordinates as Numbers
Vertex(x, y, z) == [x |-> x, y |-> y, z |-> z]

\* let minX = Infinity, ..., maxX = -Infinity, ...
emptyBox ==
    [minX |-> Inf(1), minY |-> Inf(1), minZ |-> Inf(1),
     maxX |-> Inf(-1), maxY |-> Inf(-1), maxZ |-> Inf(-1)]

RECURSIVE boundingLoop(_, _, _)
\* for (let i = 0; i < positions.length; i++), with i counted from 1
boundingLoop(boxArg, positions, i) ==
    CHOOSE value \in {
        IF i <= Len(positions)
        THEN boundingLoop(
                 [minX |-> MathMin(box.minX, p.x), maxX |-> MathMax(box.maxX, p.x),
                  minY |-> MathMin(box.minY, p.y), maxY |-> MathMax(box.maxY, p.y),
                  minZ |-> MathMin(box.minZ, p.z), maxZ |-> MathMax(box.maxZ, p.z)],
                 positions, i + 1)
        ELSE box
      : box \in {boxArg},
        p \in {IF i <= Len(positions)
                THEN Vertex(Coordinate(positions[i].x),
                            Coordinate(positions[i].y),
                            Coordinate(positions[i].z))
                ELSE Vertex(Zero, Zero, Zero)}} : TRUE

calculateBoundingBox(positions) ==
    LET box     == boundingLoop(emptyBox, positions, 1)
        extentX == Sub(box.maxX, box.minX)
        extentY == Sub(box.maxY, box.minY)
        extentZ == Sub(box.maxZ, box.minZ)
    IN  [minX |-> box.minX, minY |-> box.minY, minZ |-> box.minZ,
         maxX |-> box.maxX, maxY |-> box.maxY, maxZ |-> box.maxZ,
         extentX |-> extentX, extentY |-> extentY, extentZ |-> extentZ,
         maxExtent |-> MathMax(MathMax(extentX, extentY), extentZ)]

\* this.scene.fog.far = bbox.maxExtent * 1.5
fogDistance(bbox) == Mul(bbox.maxExtent, Rat(3, 2))

\* (bbox.maxExtent / 2) / Math.sin(fovRad / 2) * 1.25, for camera.fov = 60
cameraDistance(bbox) ==
    Mul(Div(Div(bbox.maxExtent, Num(2)), Sin(TimesPi(Rat(1, 6)))), Rat(5, 4))

\* size: Math.max(0.05, bbox.maxExtent * 0.005)
particleSize(bbox) == MathMax(Rat(1, 20), Mul(bbox.maxExtent, Rat(1, 200)))

\* new Float32Array(particleCount * 3) with the positions copied to its
\* front: one vertex per three entries, the entries not written stay 0
positionArray(positions, particleCount) ==
    [i \in 1..particleCount |->
        IF i <= Len(positions)
        THEN Vertex(Coordinate(positions[i].x), Coordinate(positions[i].y),
                    Coordinate(positions[i].z))
        ELSE Vertex(Zero, Zero, Zero)]

sceneRemoveNothing(children, object) == children

\* this.scene.remove(object)
sceneRemove(children, object) ==
    SelectSeq(children, LAMBDA child : child # object)

\* what the caller of renderOrbital does once the call has returned: the
\* constructor ends, updateOrbital renders the formula, setParticleCount ends
Continue(caller) ==
    /\ task' = IF caller = "constructor" THEN "initialize" ELSE "ready"
    /\ IF caller = "updateOrbital"
       THEN /\ formulaElement' = getOrbitalFormula(currentN', currentL',
                                                   currentM')
            /\ lastFormula' =
                  <<[n |-> currentN', l |-> currentL', m |-> currentM']>>
       ELSE UNCHANGED <<formulaElement, lastFormula>>

\* renderOrbital(n, l, m, particleCount) up to its call of
\* generateOrbitalParticles
renderOrbital(n, l, m, particleCount, caller) ==
    IF visualizer.isLoading
    THEN /\ lastRender' = <<[n |-> n, l |-> l, m |-> m,
                             particleCount |-> particleCount,
                             ran |-> FALSE, returned |-> 0]>>
         /\ UNCHANGED <<sampler, visualizer, scene>>
         /\ Continue(caller)
    ELSE /\ lastRender' = <<[n |-> n, l |-> l, m |-> m,
                             particleCount |-> particleCount,
                             ran |-> TRUE, returned |-> 0]>>
         /\ scene' =
               IF visualizer.particles # <<>>
               THEN sceneRemove(scene, visualizer.particles[1])
               ELSE scene
         /\ visualizer' =
               [currentN |-> n, currentL |-> l, currentM |-> m,
                particleCount |-> particleCount, particles |-> <<>>,
                isLoading |-> TRUE]
         /\ Entered(n, l, m, particleCount)
         /\ task' = caller
         /\ UNCHANGED <<formulaElement, lastFormula>>

\* renderOrbital from the point generateOrbitalParticles has returned (of the
\* scene, the particle systems are kept; fog and camera are not state of
\* the model), and then the rest of the handler that called it
renderOrbitalReturn ==
    /\ task \in {"constructor", "updateOrbital", "setParticleCount"}
    /\ pc = "done"
    /\ \E bbox \in {calculateBoundingBox(particles)} :
       \E system \in {[geometry |-> positionArray(particles,
                                                  args.particleCount),
                       size |-> particleSize(bbox)]} :
          /\ scene' = Append(scene, system)
          /\ visualizer' = [visualizer EXCEPT !.particles = <<system>>,
                                              !.isLoading = FALSE]
    /\ lastRender' = <<[lastRender[1] EXCEPT !.returned = Len(particles)]>>
    /\ Returned
    /\ UNCHANGED <<call, quantile, nSelect, lSelect, mSelect,
                   particleCountSlider, particleCountValue, currentN,
                   currentL, currentM>>
    /\ Continue(task)

\* setParticleCount(count)
setParticleCount(count) ==
    IF visualizer.particleCount # count
    THEN renderOrbital(visualizer.currentN, visualizer.currentL,
                       visualizer.currentM, count, "setParticleCount")
    ELSE UNCHANGED <<sampler, visualizer, scene, task, lastRender,
                     formulaElement, lastFormula>>

\* ---------------------------------------------------------- page script
\* the integers the texts of the page stand for
PageIntegers == (-MaxN)..(MaxN + MaxSliderCount)

\* parseInt of the decimal text of an integer
parseInt(text) == CHOOSE i \in PageIntegers : ToString(i) = text

\* the value a select element shows once its options were replaced: that of
\* its first option
firstOption(options) == options[1]

lValuesInclusive(n) == [j \in 1..(n + 1) |-> ToString(j - 1)]

\* for (let l = 0; l < n; l++): option.value = l
lValues(n) == [j \in 1..n |-> ToString(j - 1)]

\* for (let m = -l; m <= l; m++): option.value = m
mValues(l) == [j \in 1..(2 * l + 1) |-> ToString(j - 1 - l)]

\* updateMValues(): the m select it leaves, for the value of the l select
updateMValues(lValue) ==
    LET options == mValues(parseInt(lValue))
    IN  [options |-> options, value |-> firstOption(options)]

\* updateLValues(): the l select it leaves, for the value of the n select
updateLValues(nValue) ==
    LET options == lValues(parseInt(nValue))
    IN  [options |-> options, value |-> firstOption(options)]

\* updateOrbital() up to the call of generateOrbitalParticles
updateOrbital ==
    /\ currentN' = parseInt(nSelect')
    /\ currentL' = parseInt(lSelect'.value)
    /\ currentM' = parseInt(mSelect'.value)
    /\ renderOrbital(currentN', currentL', currentM',
                     parseInt(particleCountSlider'), "updateOrbital")

\* the DOMContentLoaded listener starts: new OrbitalVisualizer(...) runs to
\* the call of generateOrbitalParticles inside renderOrbital(1, 0, 0, ...)
DOMContentLoaded ==
    /\ task = "load"
    /\ pc = "idle"
    /\ call = NoCall
    /\ renderOrbital(1, 0, 0, visualizer.particleCount, "constructor")
    /\ UNCHANGED <<call, quantile, nSelect, lSelect, mSelect,
                   particleCountSlider, particleCountValue, currentN,
                   currentL, currentM>>

\* the listener goes on: updateLValues(); updateOrbital(); the
\* renderFormula() that ends it repeats the one of updateOrbital
Initialize ==
    /\ task = "initialize"
    /\ lSelect' = updateLValues(nSelect)
    /\ mSelect' = updateMValues(lSelect'.value)
    /\ UNCHANGED <<call, quantile, nSelect, particleCountSlider,
                   particleCountValue>>
    /\ updateOrbital

\* a change event of the n select: the user has picked another option
nSelectChange ==
    /\ task = "ready"
    /\ \E j \in DOMAIN nOptions :
          nOptions[j] # nSelect /\ nSelect' = nOptions[j]
    /\ lSelect' = updateLValues(nSelect')
    /\ mSelect' = updateMValues(lSelect'.value)
    /\ UNCHANGED <<call, quantile, particleCountSlider, particleCountValue>>
    /\ updateOrbital

\* a change event of the l select
lSelectChange ==
    /\ task = "ready"
    /\ \E j \in DOMAIN lSelect.options :
          /\ lSelect.options[j] # lSelect.value
          /\ lSelect' = [lSelect EXCEPT !.value = lSelect.options[j]]
    /\ mSelect' = updateMValues(lSelect'.value)
    /\ UNCHANGED <<call, quantile, nSelect, particleCountSlider,
                   particleCountValue>>
    /\ updateOrbital

\* a change event of the m select
mSelectChange ==
    /\ task = "ready"
    /\ \E j \in DOMAIN mSelect.options :
          /\ mSelect.options[j] # mSelect.value
          /\ mSelect' = [mSelect EXCEPT !.value = mSelect.options[j]]
    /\ UNCHANGED <<call, quantile, nSelect, lSelect, particleCountSlider,
                   particleCountValue>>
    /\ updateOrbital

\* an input event of the particle count slider
particleCountInput ==
    /\ task = "ready"
    /\ \E value \in sliderValues : particleCountSlider' = value
    /\ particleCountValue' = particleCountSlider'
    /\ setParticleCount(parseInt(particleCountSlider'))
    /\ UNCHANGED <<call, quantile, nSelect, lSelect, mSelect, currentN,
                   currentL, currentM>>

PageNext ==
    \/ DOMContentLoaded
    \/ Initialize
    \/ nSelectChange
    \/ lSelectChange
    \/ mSelectChange
    \/ particleCountInput
    \/ LoopStep
    \/ LoopExit
    \/ renderOrbitalReturn

\* the page from its load on
PageSpec == Init /\ [][PageNext]_vars

Next ==
    \/ CallFactorial
    \/ CallAssociatedLegendre
    \/ CallAssociatedLaguerre
    \/ CallHalton
    \/ CallSphericalPoint
    \/ CallSphericalHarmonic
    \/ CallProbabilityDensity
    \/ CallGetOrbitalFormula
    \/ CallReturn
    \/ generateOrbitalParticles
    \/ LoopStep
    \/ LoopExit
    \/ Return

Spec == Init /\ [][Next]_vars

\* the loop is synchronous code: once entered it keeps running
FairSpec == Spec /\ WF_vars(LoopStep) /\ WF_vars(LoopExit)

\* =================================================================== claims

\* ---- C1
\* C1: the array generateOrbitalParticles builds never holds more than
\* particleCount points, and the array it returns is shorter than
\* particleCount only when all 10 * particleCount attempts were used;
\* otherwise it holds exactly particleCount points.
C1_LengthAtMostCount ==
    /\ Len(particles) <= args.particleCount
    /\ pc = "done" =>
          /\ Len(particles) < args.particleCount
                => attempts = 10 * args.particleCount
          /\ attempts < 10 * args.particleCount
                => Len(particles) = args.particleCount

\* a call for n = 2 returns fewer points than asked for
C1_ShortCloudReturned ==
    /\ pc = "done"
    /\ args.n = 2
    /\ Len(particles) < args.particleCount
    /\ attempts = 10 * args.particleCount

\* ---- C2
\* C2: the rejection loop never makes more than 10 * particleCount attempts,
\* always reaches its return, and returns exactly the points accepted so far.
C2_LoopTerminates ==
    /\ [](attempts <= 10 * args.particleCount)
    /\ [](pc = "done" => Len(particles) = accepted)
    /\ ((pc = "loop") ~> (pc = "done"))

C2_AllRejectedRunReturned ==
    /\ pc = "done"
    /\ args.particleCount > 0
    /\ accepted = 0
    /\ particles = <<>>
    /\ Cardinality(rejected) = 10 * args.particleCount

\* ---- C3
\* C3: the k-th attempt passes index k to the low-discrepancy sampler, for
\* accepted and rejected attempts alike, so every attempt samples and the
\* "index already rejected" branch is never taken.
C3_IndexAdvancesEveryAttempt ==
    /\ Len(used) = attempts
    /\ \A k \in 1..Len(used) : used[k] = k
    /\ skips = 0
    /\ \A idx \in rejected : idx <= attempts

C3_MixedAttemptsMade ==
    /\ pc = "loop"
    /\ attempts >= 3
    /\ accepted >= 1
    /\ Cardinality(rejected) >= 2
    /\ used[attempts] = attempts

\* ---- C4
\* C4: factorial(k) is 1 for k in {0, 1}, 0 for k < 0, the exact product
\* 2*3*...*k for 2 <= k <= 20 (5! = 120, 10! = 3628800,
\* 20! = 2432902008176640000), and at least 1 for every k >= 0.
C4_FactorialExact ==
    call.fn = "factorial" =>
        LET k == call.a[1]
        IN  /\ k \in {0, 1} => call.res = <<1>>
            /\ k < 0 => call.res = <<>>
            /\ (2 <= k /\ k <= 20) => call.res = ExactProduct(k)
            /\ k = 5 => call.res = Dec(<<1, 2, 0>>, <<>>)
            /\ k = 10 => call.res = Dec(<<3, 6, 2, 8, 8, 0, 0>>, <<>>)
            /\ k = 20 => call.res = Dec(<<2, 4, 3, 2, 9, 0, 2, 0, 0, 8,
                                          1, 7, 6, 6, 4, 0, 0, 0, 0>>, <<>>)
            /\ k >= 0 => call.res # <<>>

C4_Factorial20Computed ==
    /\ call.fn = "factorial"
    /\ call.a = <<20>>
    /\ call.res = Dec(<<2, 4, 3, 2, 9, 0, 2, 0, 0, 8,
                        1, 7, 6, 6, 4, 0, 0, 0, 0>>, <<>>)

\* ---- C5
\* C5: associatedLegendre(l, m, x) returns 0 whenever |m| > l (it returns,
\* and the value is the number 0).
C5_LegendreZeroOutsideDomain ==
    (call.fn = "associatedLegendre" /\ Abs(call.a[2]) > call.a[1])
        => call.res = Zero

\* ---- C6
\* C6: for 1 <= m <= l, associatedLegendre(l, -m, x) returns the finite value
\* that associatedLegendre(l, m, x) returns.
C6_LegendreUsesAbsM ==
    (/\ call.fn = "associatedLegendre"
     /\ call.a[2] < 0
     /\ -call.a[2] <= call.a[1])
        => /\ IsNum(call.res)
           /\ call.res = associatedLegendre(call.a[1], -call.a[2], call.v[1])

\* ---- C7
\* C7: for x >= 0 and every alpha, associatedLaguerre(0, alpha, x) is 1 and
\* associatedLaguerre(n, alpha, x) is 0 for n < 0.
C7_LaguerreBaseAndNegativeN ==
    (call.fn = "associatedLaguerre" /\ ~Less(call.v[2], Zero))
        => /\ call.a[1] = 0 => call.res = One
           /\ call.a[1] < 0 => call.res = Zero

\* ---- C8
\* C8: associatedLaguerre(n, alpha, x) is 0 for every x < 0, n >= 0.
C8_LaguerreZeroForNegativeX ==
    (call.fn = "associatedLaguerre" /\ call.a[1] >= 0 /\ Less(call.v[2], Zero))
        => call.res = Zero

\* ---- C9
Factorial(k) == BitsToNat(ExactProduct(k))

Binomial(a, b) ==
    IF b < 0 \/ b > a THEN 0
    ELSE Factorial(a) \div (Factorial(b) * Factorial(a - b))

RECURSIVE LaguerreSumFrom(_, _, _, _)
\* sum over j = k..n of (-1)^j * C(n + alpha, n - j) * x^j / j!
LaguerreSumFrom(k, n, alpha, x) ==
    IF k > n THEN Zero
    ELSE Add(Div(Mul(Num((-1) ^ (k % 2) * Binomial(n + alpha, n - k)),
                     Pow(x, k)),
                 Num(Factorial(k))),
             LaguerreSumFrom(k + 1, n, alpha, x))

\* C9: for integer n >= 1, integer alpha >= 0 and x >= 0, the value of the
\* three-term recurrence equals the binomial sum that defines L_n^alpha(x);
\* for n = 2 it is x^2/2 - (alpha+2)x + (alpha+2)(alpha+1)/2.
C9_LaguerreRecurrenceIsBinomialSum ==
    (/\ call.fn = "associatedLaguerre"
     /\ call.a[1] >= 1
     /\ call.v[1].d = 1 /\ call.v[1].n >= 0
     /\ ~Less(call.v[2], Zero))
        => LET n     == call.a[1]
               alpha == call.v[1]
               x     == call.v[2]
           IN  /\ call.res = LaguerreSumFrom(0, n, alpha.n, x)
               /\ n = 2 =>
                    call.res =
                        Add(Sub(Div(Mul(x, x), Num(2)),
                                Mul(Add(alpha, Num(2)), x)),
                            Div(Mul(Add(alpha, Num(2)), Add(alpha, One)),
                                Num(2)))

C9_Laguerre224Computed ==
    /\ call.fn = "associatedLaguerre"
    /\ call.a = <<2>>
    /\ call.v = <<Num(2), Num(4)>>
    /\ call.res = Num(-2)

\* ---- C10
RECURSIVE DigitReversal(_, _, _)
\* sum over the base-b digits d_j of i, j >= k, of d_j / b^(j+1)
DigitReversal(i, b, k) ==
    IF b ^ k > i THEN Zero
    ELSE Add(Rat((i \div (b ^ k)) % b, b ^ (k + 1)), DigitReversal(i, b, k + 1))

\* C10: halton(i, b) lies in [0, 1) and is the base-b digit reversal of i
\* (0 for i = 0); sphericalPoint(i) takes r, theta/pi and phi/(2*pi) from
\* bases 2, 3 and 5.
C10_HaltonIsDigitReversal ==
    /\ call.fn = "halton" =>
          /\ IsNum(call.res)
          /\ ~Less(call.res, Zero)
          /\ Less(call.res, One)
          /\ call.res = DigitReversal(call.a[1], call.a[2], 0)
          /\ call.a[1] = 0 => call.res = Zero
    /\ call.fn = "sphericalPoint" =>
          /\ call.res.r = DigitReversal(call.a[1], 2, 0)
          /\ call.res.theta = TimesPi(DigitReversal(call.a[1], 3, 0))
          /\ call.res.phi =
                TimesPi(Mul(Num(2), DigitReversal(call.a[1], 5, 0)))

C10_Halton5Base3Computed ==
    /\ call.fn = "halton"
    /\ call.a = <<5, 3>>
    /\ call.res = Rat(7, 9)

\* ---- C11
\* C11: probabilityDensity(n, l, m, r, theta, phi) is a number that is not
\* negative for every valid quantum state and every r >= 0, theta, phi,
\* whatever the signs of the radial and the angular factor.
C11_DensityNonNegative ==
    call.fn = "probabilityDensity" =>
        /\ call.res.k \in {"num", "real"}
        /\ ~(call.res.n < 0)

\* 2p, m = 1 at the equator: the angular factor is negative, the density is
\* positive
C11_NegativeHarmonicSquared ==
    /\ call.fn = "probabilityDensity"
    /\ call.a = <<2, 1, 1>>
    /\ call.v = <<Num(2), TimesPi(Rat(1, 2)), TimesPi(Zero)>>
    /\ Less(sphericalHarmonic(1, 1, call.v[2], call.v[3]), Zero)
    /\ call.res.k = "num"
    /\ call.res.n > 0

\* ---- C12
\* C12: probabilityDensity is radial density * angular density * r^2, and so
\* it is 0 at r = 0 for every valid state, the s states included.
C12_DensityHasVolumeFactor ==
    call.fn = "probabilityDensity" =>
        LET R == radialWavefunction(call.a[1], call.a[2], call.v[1])
            Y == sphericalHarmonic(call.a[2], call.a[3], call.v[2],
                                   call.v[3])
        IN  /\ call.res = Mul(Mul(Mul(R, R), Mul(Y, Y)),
                              Mul(call.v[1], call.v[1]))
            /\ call.v[1] = Zero => call.res = Zero

\* ---- C13
\* C13: for l = 0, m = 0 and every n and r, probabilityDensity takes the same
\* value for all theta in [0, pi] and all phi.
C13_SOrbitalIsotropic ==
    (call.fn = "probabilityDensity" /\ call.a[2] = 0 /\ call.a[3] = 0) =>
        call.res = probabilityDensity(call.a[1], 0, 0, call.v[1],
                                      TimesPi(Zero), TimesPi(Zero))

\* 2s away from the pole and from phi = 0
C13_SOrbitalOffAxisComputed ==
    /\ call.fn = "probabilityDensity"
    /\ call.a = <<2, 0, 0>>
    /\ call.v = <<Num(1), TimesPi(Rat(1, 4)), TimesPi(Rat(1, 2))>>
    /\ call.res.k = "num"
    /\ call.res.n > 0

\* ---- C14
\* C14: for l >= 1 and m = l or m = -l, at phi = 0 the angular density
\* (the square of the spherical harmonic) is 0 at the pole theta = 0 and
\* strictly greater at the equator theta = pi/2; so is probabilityDensity
\* at every r where the radial factor is not 0, e.g. for (4, 3, 3), (n, 1, 1)
\* and (n, 1, -1).
C14_SectoralPeaksAtEquator ==
    /\ (/\ call.fn = "sphericalHarmonic"
        /\ call.a[1] >= 1
        /\ Abs(call.a[2]) = call.a[1]
        /\ call.v = <<TimesPi(Rat(1, 2)), TimesPi(Zero)>>) =>
          LET pole == sphericalHarmonic(call.a[1], call.a[2], TimesPi(Zero),
                                        TimesPi(Zero))
          IN  /\ Mul(pole, pole) = Zero
              /\ Less(Mul(pole, pole), Mul(call.res, call.res))
    /\ (/\ call.fn = "probabilityDensity"
        /\ call.a[2] >= 1
        /\ Abs(call.a[3]) = call.a[2]
        /\ call.v[2] = TimesPi(Rat(1, 2))
        /\ call.v[3] = TimesPi(Zero)
        /\ ~IsZero(radialWavefunction(call.a[1], call.a[2], call.v[1]))) =>
          LET pole == probabilityDensity(call.a[1], call.a[2], call.a[3],
                                         call.v[1], TimesPi(Zero),
                                         TimesPi(Zero))
          IN  /\ pole = Zero
              /\ Less(pole, call.res)

\* 4f, m = 3 at the equator
C14_Density433AtEquator ==
    /\ call.fn = "probabilityDensity"
    /\ call.a = <<4, 3, 3>>
    /\ call.v = <<Num(2), TimesPi(Rat(1, 2)), TimesPi(Zero)>>
    /\ call.res.k = "num"
    /\ call.res.n > 0

\* ---- C15
\* the real closed forms of the l = 1 angular density, without their
\* constant factor
RealClosedForm(m, theta, phi) ==
    IF m = 0 THEN Mul(Cos(theta), Cos(theta))
    ELSE IF m = -1
         THEN Mul(Mul(Sin(theta), Sin(theta)), Mul(Cos(phi), Cos(phi)))
    ELSE Mul(Mul(Sin(theta), Sin(theta)), Mul(Sin(phi), Sin(phi)))

\* C15: for l = 1 the angular density is, up to a constant factor, cos^2(theta)
\* for m = 0, sin^2(theta) cos^2(phi) for m = -1 and sin^2(theta) sin^2(phi)
\* for m = +1; the m = +1 density is 0 at phi = 0, and the m = +1 and m = -1
\* densities differ at (theta, phi) = (pi/2, 0).
C15_RealClosedFormsForL1 ==
    (call.fn = "sphericalHarmonic" /\ call.a[1] = 1) =>
        LET m       == call.a[2]
            theta   == call.v[1]
            phi     == call.v[2]
            density == Mul(call.res, call.res)
            ref     == TimesPi(Rat(1, 4))
            Yref    == sphericalHarmonic(1, m, ref, ref)
            Yother  == sphericalHarmonic(1, -m, theta, phi)
        IN  /\ Mul(density, RealClosedForm(m, ref, ref))
                  = Mul(Mul(Yref, Yref), RealClosedForm(m, theta, phi))
            /\ (m = 1 /\ phi = TimesPi(Zero)) => density = Zero
            /\ (m = 1 /\ theta = TimesPi(Rat(1, 2)) /\ phi = TimesPi(Zero))
                  => density # Mul(Yother, Yother)

\* ---- C16
\* the orbital type as the specification renders it
RenderedType(l) ==
    IF l <= 5 THEN <<"s", "p", "d", "f", "g", "h">>[l + 1]
    ELSE "l=" \o ToString(l)

\* C16: getOrbitalFormula(n, l, m) returns the markup naming R_{nl}(r) and
\* Y_l^m(theta, phi) whose orbital type is the letter s, p, d, f, g, h for
\* l = 0..5 and the literal "l=k" for every l = k >= 6.
C16_OrbitalTypeRendering ==
    call.fn = "getOrbitalFormula" =>
        LET n == ToString(call.a[1])
            l == ToString(call.a[2])
            m == ToString(call.a[3])
        IN  call.res = "\\psi_{" \o n \o RenderedType(call.a[2])
                          \o "}(r,\\theta,\\phi) = R_{" \o n \o l
                          \o "}(r) \\cdot Y_{" \o l \o "}^{" \o m
                          \o "}(\\theta,\\phi)"

\* ---- C17
\* C17: r90(n, l) is memoized per (n, l): after any sequence of r90 calls a
\* repeated call with the same (n, l) returns the value the first call
\* returned, the integral is computed once per key, and a cache entry once
\* written is never changed or removed.
C17_R90Memoized ==
    /\ [](\A key \in DOMAIN r90First :
             /\ key \in DOMAIN r90Cache
             /\ r90Cache[key] = r90First[key]
             /\ r90Integrations[key] = 1)
    /\ [](r90Last # NoR90 =>
             /\ r90Last.key \in DOMAIN r90First
             /\ r90Last.value = r90First[r90Last.key])
    /\ [][\A key \in DOMAIN r90Cache :
             /\ key \in DOMAIN r90Cache'
             /\ r90Cache'[key] = r90Cache[key]]_vars

\* r90(2, 1) is answered from the cache after other keys were computed
C17_RepeatedCallHitsCache ==
    /\ <<2, 1>> \in DOMAIN r90First
    /\ r90Last = [key |-> <<2, 1>>, value |-> r90First[<<2, 1>>],
                  hit |-> TRUE]
    /\ Cardinality(DOMAIN r90Cache) >= 2

\* ---- C18
\* C18: generateOrbitalParticles keeps no state between calls: between calls
\* none of its locals survives, each call starts from an empty result array
\* and an empty rejected set, the quantile cache is never touched, and the
\* k-th sampling attempt examines the candidate of index k, a function of
\* (n, l, m, particleCount) and k alone, whether or not an earlier call has
\* run.
C18_NoStateBetweenCalls ==
    /\ pc = "idle" =>
          <<args, particles, rejected, accepted, attempts, spherical,
            probability, used, skips>>
             = <<NoArgs, <<>>, {}, 0, 0, NoPoint, Zero, <<>>, 0>>
    /\ (pc = "loop" /\ attempts = 0) =>
          particles = <<>> /\ rejected = {} /\ accepted = 0
    /\ quantile = <<Empty, NoR90, Empty, Empty>>
    /\ \A k \in 1..Len(used) : used[k] = k
    /\ Len(used) > 0 =>
          /\ spherical = Candidate(Len(used))
          /\ probability = probabilityDensity(args.n, args.l, args.m,
                               spherical.r, spherical.theta, spherical.phi)

\* a later call is examining its second candidate
C18_SecondCallSampling ==
    /\ priorCall
    /\ pc = "loop"
    /\ args.n = 2
    /\ used = <<1, 2>>
    /\ spherical = [r |-> Num(2), theta |-> TimesPi(Rat(2, 3)),
                    phi |-> TimesPi(Rat(4, 5))]

\* ---- C19
\* C19: the candidate radius is rMax * cbrt(u) for the raw Halton r-sample u,
\* i.e. candidateRadius^3 = rMax^3 * u, and theta and phi are passed through
\* unchanged.
C19_RadiusIsCubeRootScaled ==
    Len(used) > 0 =>
        LET raw == sphericalPoint(used[Len(used)])
        IN  /\ Pow(spherical.r, 3) = Mul(Pow(Num(maxRadius), 3), raw.r)
            /\ spherical.theta = raw.theta
            /\ spherical.phi = raw.phi

\* ---- C20
\* C20: the envelope 0.1 is a majorant of the density: for every candidate
\* the sampler examines, density / envelope <= 1 (stated through a rational
\* lower bound of the density: not even that bound exceeds the envelope).
C20_EnvelopeIsMajorant ==
    Len(used) > 0 => ~Less(Envelope, LowerBound(probability))

\* ---- C21
\* a valid quantum state: n >= 1, 0 <= l <= n - 1, -l <= m <= l
ValidState(q) ==
    q.n >= 1 /\ 0 <= q.l /\ q.l <= q.n - 1 /\ -q.l <= q.m /\ q.m <= q.l

\* C21: from the load of the page on and after any change events of the n,
\* l and m selects, every (n, l, m) passed to renderOrbital and to
\* getOrbitalFormula is a valid quantum state; a change of n puts a valid
\* pair l, m into the selects before the orbital is rendered again.
C21_SelectorsGiveValidStates ==
    /\ \A j \in DOMAIN lastRender : ValidState(lastRender[j])
    /\ \A j \in DOMAIN lastFormula : ValidState(lastFormula[j])
    /\ task \in {"updateOrbital", "ready"} =>
          ValidState([n |-> parseInt(nSelect), l |-> parseInt(lSelect.value),
                      m |-> parseInt(mSelect.value)])

\* n was changed to 1 while the formula of the state (2, 1, 1) was shown:
\* renderOrbital was called with (1, 0, 0)
C21_ChangedNFromTwoPOne ==
    /\ task = "updateOrbital"
    /\ lastFormula = <<[n |-> 2, l |-> 1, m |-> 1]>>
    /\ lastRender[1].n = 1
    /\ lastRender[1].l = 0
    /\ lastRender[1].m = 0

\* ---- C22
\* a renderOrbital call is in progress
Rendering == task \in {"constructor", "updateOrbital", "setParticleCount"}

\* C22: whatever renderOrbital and setParticleCount calls were made (with
\* valid quantum states, as the page makes them), the scene holds at most
\* one particle system, and it is the current one; isLoading is false
\* whenever no renderOrbital call is in progress; currentN, currentL,
\* currentM and particleCount are the arguments of the last renderOrbital
\* call; and setParticleCount(count) leaves currentN, currentL and currentM
\* as they are and changes nothing when count is the current particleCount.
C22_VisualizerState ==
    /\ [](/\ Len(scene) <= 1
          /\ visualizer.particles # <<>> => scene = visualizer.particles
          /\ ~Rendering => ~visualizer.isLoading
          /\ \A j \in DOMAIN lastRender :
                /\ visualizer.currentN = lastRender[j].n
                /\ visualizer.currentL = lastRender[j].l
                /\ visualizer.currentM = lastRender[j].m
                /\ visualizer.particleCount = lastRender[j].particleCount)
    /\ [][task = "ready" /\ task' \in {"ready", "setParticleCount"} =>
            /\ visualizer'.currentN = visualizer.currentN
            /\ visualizer'.currentL = visualizer.currentL
            /\ visualizer'.currentM = visualizer.currentM
            /\ parseInt(particleCountSlider') = visualizer.particleCount =>
                  UNCHANGED <<visualizer, scene, sampler, task, lastRender>>
         ]_vars

\* setParticleCount(2) renders the state (2, 1, m) again: the system shown
\* before is out of the scene, the sampler has returned and the new system
\* is about to be added
C22_RerenderingForNewCount ==
    /\ task = "setParticleCount"
    /\ pc = "done"
    /\ visualizer.currentN = 2
    /\ visualizer.currentL = 1
    /\ visualizer.particleCount = 2
    /\ visualizer.isLoading
    /\ scene = <<>>

\* ---- C23
\* C23: the geometry renderOrbital builds holds as many points as
\* generateOrbitalParticles returned positions: a short cloud is rendered
\* without further points.
C23_RendersReturnedPositionsOnly ==
    \A j \in DOMAIN visualizer.particles :
        Len(visualizer.particles[j].geometry) = lastRender[1].returned

\* ---- C24
\* a finite Number that is not known to be negative
FiniteNonNegative(a) == a.k \in {"num", "real"} /\ a.n >= 0

\* the bounding box has min <= max on each axis and a finite maxExtent >= 0,
\* and so are the fog distance, camera distance and particle size
SoundBox(bbox) ==
    /\ ~Less(bbox.maxX, bbox.minX)
    /\ ~Less(bbox.maxY, bbox.minY)
    /\ ~Less(bbox.maxZ, bbox.minZ)
    /\ FiniteNonNegative(bbox.maxExtent)
    /\ FiniteNonNegative(fogDistance(bbox))
    /\ FiniteNonNegative(cameraDistance(bbox))
    /\ FiniteNonNegative(particleSize(bbox))

\* C24: for every cloud generateOrbitalParticles returns, the empty one
\* included, calculateBoundingBox gives min <= max on each axis and a finite
\* maxExtent >= 0, and the fog distance, camera distance and particle size
\* renderOrbital derives from it are finite and not negative.
C24_BoundingBoxIsSound ==
    pc = "done" => SoundBox(calculateBoundingBox(particles))

\* ---- C25
\* C25: for 0 <= m <= l the evaluation of associatedLegendre(l, m, x)
\* terminates: every recursive call keeps m and has a smaller l that is
\* still >= m, so no call is made with l < m or l < 0, and the calls nest
\* at most l - m levels deep below the first one (a stack with room for
\* just l - m further levels is enough).
C25_LegendreRecursionIsBounded ==
    (/\ call.fn = "associatedLegendre"
     /\ 0 <= call.a[2]
     /\ call.a[2] <= call.a[1])
        => /\ call.res # RangeError
           /\ legendreFrame(call.a[1], call.a[2], call.v[1],
                            MaxCallDepth - (call.a[1] - call.a[2]))
                 # RangeError
           /\ \A f \in legendreActivations(call.a[1], call.a[2], 1) :
                 /\ f[2] = call.a[2]
                 /\ f[1] >= f[2]
                 /\ f[1] >= 0
                 /\ f[3] - 1 <= call.a[1] - call.a[2]
                 /\ \A c \in legendreCallees(f[1], f[2]) :
                       c[2] = f[2] /\ c[1] < f[1] /\ c[1] >= c[2]

\* associatedLegendre(4, 1, x) was called: its recursion reaches
\* associatedLegendre(1, 1, x) three levels below the first call
C25_DeepestChainTaken ==
    /\ call.fn = "associatedLegendre"
    /\ call.a = <<4, 1>>
    /\ IsNum(call.res)
    /\ <<1, 1, 4>> \in legendreActivations(4, 1, 1)

====
